---- MODULE Spec2Model ----
(***************************************************************************)
(* Appointment assistant backend (src/app.py): the Slot Store              *)
(* (APPOINTMENTS), the Extraction Gateway (parse_date_time), the Dialogue  *)
(* Policy (generate_response) and the Turn Handler (chat).                 *)
(*                                                                         *)
(* Python values are tagged records: None is [t |-> "none"], a str is      *)
(* [t |-> "str", s |-> <<tokens>>], a dict is [t |-> "dict", d |-> f], a   *)
(* list is [t |-> "list"], an int is [t |-> "int", n |-> i].  A string is  *)
(* the sequence of its tokens, so that concatenation is \o and the empty   *)
(* string is <<>>.                                                         *)
(***************************************************************************)
EXTENDS Integers, Sequences, FiniteSets, TLC

\* ------------------------------------------------------------------ bounds
\* number of HTTP requests (POST /chat and GET /appointments) served
MaxRequests == 2

\* ------------------------------------------------------------------- state
VARIABLES
    APPOINTMENTS,    \* the Slot Store: appointment key -> booking record
    pc,              \* where each request thread stands in chat()
    request,         \* the request a thread is serving
    user_message,    \* chat(): user_message
    extracted_info,  \* chat(): extracted_info
    is_available,    \* the answer check_availability gave the thread
    bot_response,    \* chat(): bot_response
    result,          \* what the thread handed back to its caller
    api,             \* what the outbound call did in this turn
    calls,           \* per turn: invocations of gateway, policy, store
    entry_store,     \* the Slot Store when the turn was received
    requests,        \* requests received so far
    viewed,          \* the last answer of GET /appointments
    last_writer,     \* the thread whose booking write came last (0: none yet)
    prior,           \* per thread: the name request its previous turn made
    booked_pairs     \* the (date, time) pairs seeded or booked so far

vars == <<APPOINTMENTS, pc, request, user_message, extracted_info, is_available,
          bot_response, result, api, calls, entry_store, requests, viewed,
          last_writer, prior, booked_pairs>>

\* ------------------------------------------------------------ Python values
None == [t |-> "none"]

PyStr(s) == [t |-> "str", s |-> s]

PyDict(d) == [t |-> "dict", d |-> d]

PyList == [t |-> "list"]

PyInt(n) == [t |-> "int", n |-> n]

\* Python truth value, as tested by `not x` and `if x`
Truthy(v) ==
    CASE v.t = "none" -> FALSE
      [] v.t = "str"  -> v.s /= <<>>
      [] v.t = "int"  -> v.n /= 0
      [] v.t = "dict" -> DOMAIN v.d /= {}
      [] OTHER        -> FALSE

\* f"{v}": a str is inserted as it is, anything else as its str()
Format(v) ==
    CASE v.t = "str"  -> v.s
      [] v.t = "none" -> <<"None">>
      [] OTHER        -> <<"repr">>

\* dict.get(key): the value, None when the key is missing
Get(info, key) == IF key \in DOMAIN info.d THEN info.d[key] ELSE None

RECURSIVE Join(_, _)
\* sep.join(parts) for a sequence of strings
Join(sep, parts) ==
    IF parts = <<>> THEN <<>>
    ELSE IF Len(parts) = 1 THEN parts[1]
    ELSE parts[1] \o sep \o Join(sep, Tail(parts))

Whitespace == {" ", "\n"}

RECURSIVE LStrip(_)
LStrip(s) == IF s /= <<>> /\ Head(s) \in Whitespace THEN LStrip(Tail(s)) ELSE s

RECURSIVE RStrip(_)
RStrip(s) ==
    IF s /= <<>> /\ s[Len(s)] \in Whitespace
    THEN RStrip(SubSeq(s, 1, Len(s) - 1)) ELSE s

\* a strip() that strips nothing
Strip_identity(s) == s

\* str.strip()
Strip(s) == RStrip(LStrip(s))

\* ------------------------------------------------------------- Slot Store
D20 == <<"2024-09-20">>

T09 == <<"09:00">>

T10 == <<"10:00">>

T14 == <<"14:00">>

SP == <<" ">>

\* the seed calendar
APPOINTMENTS_SEED ==
    (D20 \o SP \o T10 :>
        [service |-> PyStr(<<"dentist">>), name |-> PyStr(<<"John Doe">>), booked |-> TRUE])
    @@ (D20 \o SP \o T14 :>
        [service |-> PyStr(<<"haircut">>), name |-> PyStr(<<"Jane Smith">>), booked |-> TRUE])

AVAILABLE_SLOTS ==
    << <<"09:00">>, <<"10:00">>, <<"11:00">>, <<"12:00">>, <<"13:00">>,
       <<"14:00">>, <<"15:00">>, <<"16:00">>, <<"17:00">> >>

\* f"{date} {time}"
appointment_key(date, time) == Format(date) \o SP \o Format(time)

\* no test at all: every slot is reported free
check_availability_always(store, date, time) == TRUE

\* the membership test the wrong way round
check_availability_inverted(store, date, time) ==
    appointment_key(date, time) \in DOMAIN store

check_availability(store, date, time) ==
    appointment_key(date, time) \notin DOMAIN store

\* the key built as f"{time} {date}"
book_appointment_swapped_key(store, date, time, service, name) ==
    LET key == appointment_key(time, date)
        rec == [service |-> service, name |-> name, booked |-> TRUE]
    IN  [k \in DOMAIN store \cup {key} |-> IF k = key THEN rec ELSE store[k]]

\* the write guarded by a test of its own: a taken key keeps its record
book_appointment_if_free(store, date, time, service, name) ==
    LET key == appointment_key(date, time)
        rec == [service |-> service, name |-> name, booked |-> TRUE]
    IN  [k \in DOMAIN store \cup {key} |->
            IF k \in DOMAIN store THEN store[k] ELSE rec]

\* the name rebound to a new dict: APPOINTMENTS = {appointment_key: {...}}
book_appointment_rebinds(store, date, time, service, name) ==
    LET key == appointment_key(date, time)
        rec == [service |-> service, name |-> name, booked |-> TRUE]
    IN  [k \in {key} |-> rec]

\* the store after APPOINTMENTS[appointment_key] = {...}
book_appointment(store, date, time, service, name) ==
    LET key == appointment_key(date, time)
        rec == [service |-> service, name |-> name, booked |-> TRUE]
    IN  [k \in DOMAIN store \cup {key} |-> IF k = key THEN rec ELSE store[k]]

\* ------------------------------------------------------- Extraction Gateway
\* the fallback record of the except branch
DEFAULT_INFO ==
    PyDict([k \in {"service_type", "date", "time", "user_name", "intent"} |->
              IF k = "intent" THEN PyStr(<<"unclear">>) ELSE None])

Raise == [raised |-> TRUE, value |-> None]

Return(v) == [raised |-> FALSE, value |-> v]

\* json.loads of a completion text: the text either encodes a JSON value
\* or is not JSON at all
json_loads(text) == IF text.json THEN Return(text.value) ELSE Raise

\* the try body: the outbound call, response.choices[0].message.content
\* .strip(), json.loads
parse_date_time_body(completion) ==
    IF completion.kind = "error" THEN Raise
    ELSE IF completion.choices = <<>> THEN Raise
    ELSE IF completion.choices[1].content.t /= "str" THEN Raise
    ELSE json_loads(completion.choices[1].content.text)

\* the try body without its except branch
parse_date_time_no_except(completion) == parse_date_time_body(completion)

\* try: ... except Exception: return the fallback record
parse_date_time(completion) ==
    LET r == parse_date_time_body(completion)
    IN  IF r.raised THEN Return(DEFAULT_INFO) ELSE r

\* --------------------------------------------------------- Dialogue Policy
GREETING ==
    <<"Hello! I'm your appointment assistant. I can help you book appointments. What kind of appointment would you like to schedule?">>

FALLBACK ==
    <<"I'm here to help you book appointments. Could you please tell me what kind of appointment you need and when you'd like to schedule it?">>

Clarification(missing_info) ==
    <<"I need a bit more information. Could you please provide the ">>
        \o Join(<<", ">>, missing_info) \o <<"?">>

Confirmation(service, date, time, name) ==
    <<"Perfect! Your ">> \o Format(service) \o <<" appointment for ">>
        \o Format(date) \o <<" at ">> \o Format(time) \o <<" is confirmed, ">>
        \o Format(name) \o <<". Is there anything else I can help you with?">>

AskName(service, date, time) ==
    <<"Great! I have a ">> \o Format(service) \o <<" appointment available on ">>
        \o Format(date) \o <<" at ">> \o Format(time)
        \o <<". What's your name so I can confirm the booking?">>

Conflict(date, time) ==
    <<"I'm sorry, but ">> \o Format(time) \o <<" on ">> \o Format(date)
        \o <<" is already booked. Here are some available times: ">>
        \o Join(<<", ">>, SubSeq(AVAILABLE_SLOTS, 1, 3))
        \o <<". Would any of these work?">>

\* the date test left out
missing_info_no_date(service, date, time) ==
    (IF ~Truthy(service) THEN << <<"type of appointment">> >> ELSE <<>>)
        \o (IF ~Truthy(time) THEN << <<"time">> >> ELSE <<>>)

\* the list built by the three `if not ...: missing_info.append(...)`
missing_info(service, date, time) ==
    (IF ~Truthy(service) THEN << <<"type of appointment">> >> ELSE <<>>)
        \o (IF ~Truthy(date) THEN << <<"date">> >> ELSE <<>>)
        \o (IF ~Truthy(time) THEN << <<"time">> >> ELSE <<>>)

\* the greeting test left out of the first branch: a greeting falls
\* through to the booking branch
generate_response_head_greeting_books(info) ==
    IF info.t /= "dict" THEN [next |-> "raise", text |-> <<>>]
    ELSE IF Get(info, "intent") \in {PyStr(<<"greeting">>), PyStr(<<"book_appointment">>)}
        THEN LET missing == missing_info(Get(info, "service_type"),
                                         Get(info, "date"), Get(info, "time"))
             IN  IF missing /= <<>>
                 THEN [next |-> "return", text |-> Clarification(missing)]
                 ELSE [next |-> "check", text |-> <<>>]
    ELSE [next |-> "return", text |-> FALLBACK]

\* the booking branch as the else branch: every intent but greeting books
generate_response_head_else_books(info) ==
    IF info.t /= "dict" THEN [next |-> "raise", text |-> <<>>]
    ELSE IF Get(info, "intent") = PyStr(<<"greeting">>)
        THEN [next |-> "return", text |-> GREETING]
    ELSE LET missing == missing_info(Get(info, "service_type"),
                                     Get(info, "date"), Get(info, "time"))
         IN  IF missing /= <<>>
             THEN [next |-> "return", text |-> Clarification(missing)]
             ELSE [next |-> "check", text |-> <<>>]

\* a policy that remembers: when the previous turn asked for the name and
\* this one brings a name, the missing fields are not asked for again
generate_response_head_pending(info) ==
    IF info.t /= "dict" THEN [next |-> "raise", text |-> <<>>]
    ELSE IF Get(info, "intent") = PyStr(<<"greeting">>)
        THEN [next |-> "return", text |-> GREETING]
    ELSE IF Get(info, "intent") = PyStr(<<"book_appointment">>)
        THEN LET missing == missing_info(Get(info, "service_type"),
                                         Get(info, "date"), Get(info, "time"))
             IN  IF missing /= <<>>
                    /\ ~(Truthy(Get(info, "user_name"))
                          /\ \E p \in DOMAIN prior : prior[p].asked)
                 THEN [next |-> "return", text |-> Clarification(missing)]
                 ELSE [next |-> "check", text |-> <<>>]
    ELSE [next |-> "return", text |-> FALLBACK]

\* generate_response up to the availability check: either the function
\* raises (extracted_info has no .get), or it returns text, or it goes on
\* to check_availability
generate_response_head(info) ==
    IF info.t /= "dict" THEN [next |-> "raise", text |-> <<>>]
    ELSE IF Get(info, "intent") = PyStr(<<"greeting">>)
        THEN [next |-> "return", text |-> GREETING]
    ELSE IF Get(info, "intent") = PyStr(<<"book_appointment">>)
        THEN LET missing == missing_info(Get(info, "service_type"),
                                         Get(info, "date"), Get(info, "time"))
             IN  IF missing /= <<>>
                 THEN [next |-> "return", text |-> Clarification(missing)]
                 ELSE [next |-> "check", text |-> <<>>]
    ELSE [next |-> "return", text |-> FALLBACK]

\* ------------------------------------------------------------ Turn Handler
PLEASE_ENTER == <<"Please enter a message.">>

APOLOGY == <<"Sorry, I encountered an error. Please try again.">>

\* lines 154-158: get_json, data.get('message', ''), user_message.strip()
chat_head(req) ==
    IF req.kind = "bad" THEN [next |-> "raise", user_message |-> None]
    ELSE IF req.data.t /= "dict" THEN [next |-> "raise", user_message |-> None]
    ELSE LET message == IF "message" \in DOMAIN req.data.d
                             THEN req.data.d["message"] ELSE PyStr(<<>>)
         IN  IF message.t /= "str"
                 THEN [next |-> "raise", user_message |-> message]
             ELSE IF Strip(message.s) = <<>>
                 THEN [next |-> "empty", user_message |-> message]
             ELSE [next |-> "extract", user_message |-> message]

\* no catch-all: the exception leaves chat()
chat_except_reraise == [status |-> "raised", body |-> [exception |-> TRUE]]

\* except Exception: return the apology
chat_except == [status |-> "returned", body |-> [response |-> APOLOGY]]

\* the name decides alone: a taken slot is booked over
generate_response_tail_overwrite(available, name) ==
    IF Truthy(name) THEN "book"
    ELSE IF available THEN "ask_name" ELSE "conflict"

\* the name test left out: a free slot is booked without a name
generate_response_tail_no_name(available, name) ==
    IF available THEN "book" ELSE "conflict"

\* lines 128-138: the branch taken once check_availability has answered
generate_response_tail(available, name) ==
    IF available
    THEN IF Truthy(name) THEN "book" ELSE "ask_name"
    ELSE "conflict"

\* ------------------------------------------------------------------ inputs
Procs == {1, 2}

\* one request at a time: the single-threaded-per-request model
SeqProcs == {1}

Messages == { <<>>, <<" ">>, <<" ", "\n">>, <<" ", "hi", "\n">> }

EmptyDict == PyDict([k \in {} |-> None])

\* what request.get_json() yields: it raises, or it gives the JSON body
Requests ==
    {[kind |-> "bad"]}
        \cup {[kind |-> "json", data |-> d] : d \in {None, PyList, EmptyDict}}
        \cup {[kind |-> "json", data |-> PyDict([message |-> m])] :
                 m \in {None, PyInt(5)} \cup {PyStr(x) : x \in Messages}}

Intents ==
    {None, PyStr(<<"greeting">>), PyStr(<<"book_appointment">>),
     PyStr(<<"unclear">>), PyStr(<<"cancel">>)}

Services == {None, PyStr(<<>>), PyStr(<<"haircut">>)}

Dates == {None, PyStr(<<>>), PyStr(D20), PyStr(D20 \o SP \o T10)}

Times == {None, PyStr(<<>>), PyStr(T09), PyStr(T10), PyStr(T10 \o SP \o T09)}

Names == {None, PyStr(<<>>), PyStr(<<"Alice">>), PyStr(<<"Bob">>)}

InfoDicts ==
    {PyDict([service_type |-> s, date |-> d, time |-> t, user_name |-> n,
             intent |-> i]) :
        s \in Services, d \in Dates, t \in Times, n \in Names, i \in Intents}

\* JSON values the completion text can encode
JsonValues ==
    InfoDicts
        \cup {EmptyDict, PyDict([intent |-> PyStr(<<"greeting">>)]),
              PyDict([intent |-> PyStr(<<"book_appointment">>)]),
              None, PyList, PyStr(<<"hello">>), PyInt(1)}

\* what openai.ChatCompletion.create does: it raises, or it returns a
\* response whose first choice carries the completion text
ApiOutcomes ==
    {[kind |-> "error"], [kind |-> "response", choices |-> <<>>],
     [kind |-> "response", choices |-> <<[content |-> None]>>],
     [kind |-> "response",
      choices |-> <<[content |-> [t |-> "str", text |-> [json |-> FALSE]]]>>]}
        \cup {[kind |-> "response",
               choices |-> <<[content |-> [t |-> "str",
                                           text |-> [json |-> TRUE, value |-> v]]]>>] :
                 v \in JsonValues}

\* ------------------------------------------------------------ initial state
NoBody == [pending |-> TRUE]

NoCalls == [gateway |-> 0, outbound |-> 0, policy |-> 0, reads |-> 0,
            writes |-> 0, exceptions |-> 0]

NoRequest == [kind |-> "none"]

NoApi == [kind |-> "none"]

NoResult == [status |-> "pending", body |-> NoBody]

NoPrior == [asked |-> FALSE]

\* nothing has been viewed yet
NoView == [shown |-> FALSE, dump |-> APPOINTMENTS_SEED]

\* the (date, time) pairs of the seed calendar
SEED_PAIRS == {<<PyStr(D20), PyStr(T10)>>, <<PyStr(D20), PyStr(T14)>>}

Init ==
    /\ APPOINTMENTS = APPOINTMENTS_SEED
    /\ pc = [p \in Procs |-> "idle"]
    /\ request = [p \in Procs |-> NoRequest]
    /\ user_message = [p \in Procs |-> None]
    /\ extracted_info = [p \in Procs |-> None]
    /\ is_available = [p \in Procs |-> FALSE]
    /\ bot_response = [p \in Procs |-> <<>>]
    /\ result = [p \in Procs |-> NoResult]
    /\ api = [p \in Procs |-> NoApi]
    /\ calls = [p \in Procs |-> NoCalls]
    /\ entry_store = [p \in Procs |-> APPOINTMENTS_SEED]
    /\ requests = 0
    /\ viewed = NoView
    /\ last_writer = 0
    /\ prior = [p \in Procs |-> NoPrior]
    /\ booked_pairs = SEED_PAIRS

Count(p, what) == [calls EXCEPT ![p][what] = @ + 1]

\* what the turn the thread has just finished left behind: whether it
\* answered with the request for the name
PriorOf(p) ==
    IF pc[p] = "done" /\ calls[p].reads = 1 /\ calls[p].writes = 0 /\ is_available[p]
    THEN [asked |-> TRUE]
    ELSE NoPrior

\* POST /chat arrives: the thread enters chat()
Receive(p, req) ==
    /\ pc[p] \in {"idle", "done"}
    /\ requests < MaxRequests
    /\ requests' = requests + 1
    /\ pc' = [pc EXCEPT ![p] = "chat"]
    /\ request' = [request EXCEPT ![p] = req]
    /\ user_message' = [user_message EXCEPT ![p] = None]
    /\ extracted_info' = [extracted_info EXCEPT ![p] = None]
    /\ is_available' = [is_available EXCEPT ![p] = FALSE]
    /\ bot_response' = [bot_response EXCEPT ![p] = <<>>]
    /\ result' = [result EXCEPT ![p] = NoResult]
    /\ api' = [api EXCEPT ![p] = NoApi]
    /\ calls' = [calls EXCEPT ![p] = NoCalls]
    /\ entry_store' = [entry_store EXCEPT ![p] = APPOINTMENTS]
    /\ prior' = [prior EXCEPT ![p] = PriorOf(p)]
    /\ UNCHANGED <<APPOINTMENTS, viewed, last_writer, booked_pairs>>

\* chat(), lines 154-158
ChatHead(p) ==
    /\ pc[p] = "chat"
    /\ LET h == chat_head(request[p])
       IN  /\ user_message' = [user_message EXCEPT ![p] = h.user_message]
           /\ CASE h.next = "raise" ->
                     /\ result' = [result EXCEPT ![p] = chat_except]
                     /\ calls' = Count(p, "exceptions")
                     /\ pc' = [pc EXCEPT ![p] = "done"]
                [] h.next = "empty" ->
                     /\ result' = [result EXCEPT ![p] =
                            [status |-> "returned",
                             body |-> [response |-> PLEASE_ENTER]]]
                     /\ calls' = calls
                     /\ pc' = [pc EXCEPT ![p] = "done"]
                [] OTHER ->
                     /\ result' = result
                     /\ calls' = Count(p, "gateway")
                     /\ pc' = [pc EXCEPT ![p] = "extract"]
    /\ UNCHANGED <<APPOINTMENTS, request, extracted_info, is_available,
                   bot_response, api, entry_store, requests, viewed,
                   last_writer, prior, booked_pairs>>

\* a gateway that tries once more when its first call has failed
ParseDateTime_retry(p, outcome) ==
    /\ pc[p] = "extract"
    /\ api' = [api EXCEPT ![p] = outcome]
    /\ IF parse_date_time_body(outcome).raised /\ calls[p].outbound = 0
       THEN /\ calls' = Count(p, "outbound")
            /\ UNCHANGED <<pc, extracted_info, result>>
       ELSE /\ extracted_info' =
                 [extracted_info EXCEPT ![p] = parse_date_time(outcome).value]
            /\ calls' = Count(p, "outbound")
            /\ pc' = [pc EXCEPT ![p] = "respond"]
            /\ UNCHANGED result
    /\ UNCHANGED <<APPOINTMENTS, request, user_message, is_available,
                   bot_response, entry_store, requests, viewed,
                   last_writer, prior, booked_pairs>>

\* chat(), line 161: the outbound call answers and parse_date_time returns
ParseDateTime(p, outcome) ==
    /\ pc[p] = "extract"
    /\ api' = [api EXCEPT ![p] = outcome]
    /\ LET r == parse_date_time(outcome)
       IN  IF r.raised
           THEN /\ result' = [result EXCEPT ![p] = chat_except]
                /\ calls' = [calls EXCEPT ![p]["outbound"] = @ + 1,
                                          ![p]["exceptions"] = @ + 1]
                /\ pc' = [pc EXCEPT ![p] = "done"]
                /\ UNCHANGED extracted_info
           ELSE /\ extracted_info' = [extracted_info EXCEPT ![p] = r.value]
                /\ calls' = Count(p, "outbound")
                /\ pc' = [pc EXCEPT ![p] = "respond"]
                /\ UNCHANGED result
    /\ UNCHANGED <<APPOINTMENTS, request, user_message, is_available,
                   bot_response, entry_store, requests, viewed,
                   last_writer, prior, booked_pairs>>

\* chat(), line 164: generate_response, lines 103-125 and 140-141
GenerateResponse(p) ==
    /\ pc[p] = "respond"
    /\ LET h == generate_response_head(extracted_info[p])
       IN  CASE h.next = "raise" ->
                    /\ result' = [result EXCEPT ![p] = chat_except]
                    /\ calls' = [calls EXCEPT ![p]["policy"] = @ + 1,
                                              ![p]["exceptions"] = @ + 1]
                    /\ pc' = [pc EXCEPT ![p] = "done"]
                    /\ UNCHANGED bot_response
             [] h.next = "return" ->
                    /\ bot_response' = [bot_response EXCEPT ![p] = h.text]
                    /\ calls' = Count(p, "policy")
                    /\ pc' = [pc EXCEPT ![p] = "jsonify"]
                    /\ UNCHANGED result
             [] OTHER ->
                    /\ calls' = Count(p, "policy")
                    /\ pc' = [pc EXCEPT ![p] = "check"]
                    /\ UNCHANGED <<result, bot_response>>
    /\ UNCHANGED <<APPOINTMENTS, request, user_message, extracted_info,
                   is_available, api, entry_store, requests, viewed,
                   last_writer, prior, booked_pairs>>

\* generate_response, line 128: check_availability(date, time)
CheckAvailability(p) ==
    /\ pc[p] = "check"
    /\ is_available' = [is_available EXCEPT ![p] =
          check_availability(APPOINTMENTS, Get(extracted_info[p], "date"),
                             Get(extracted_info[p], "time"))]
    /\ calls' = Count(p, "reads")
    /\ pc' = [pc EXCEPT ![p] = "decide"]
    /\ UNCHANGED <<APPOINTMENTS, request, user_message, extracted_info,
                   bot_response, result, api, entry_store, requests, viewed,
                   last_writer, prior, booked_pairs>>

\* generate_response, lines 129-132: book and confirm
BookAppointment(p) ==
    /\ pc[p] = "decide"
    /\ LET info == extracted_info[p]
       IN  /\ generate_response_tail(is_available[p], Get(info, "user_name")) = "book"
           /\ APPOINTMENTS' =
                 book_appointment(APPOINTMENTS, Get(info, "date"), Get(info, "time"),
                                  Get(info, "service_type"), Get(info, "user_name"))
           /\ bot_response' = [bot_response EXCEPT ![p] =
                 Confirmation(Get(info, "service_type"), Get(info, "date"),
                              Get(info, "time"), Get(info, "user_name"))]
    /\ calls' = Count(p, "writes")
    /\ pc' = [pc EXCEPT ![p] = "jsonify"]
    /\ last_writer' = p
    /\ booked_pairs' = booked_pairs
          \cup {<<Get(extracted_info[p], "date"), Get(extracted_info[p], "time")>>}
    /\ UNCHANGED <<request, user_message, extracted_info, is_available, result,
                   api, entry_store, requests, viewed, prior>>

\* generate_response, lines 133-136: ask for the name
AskForName(p) ==
    /\ pc[p] = "decide"
    /\ LET info == extracted_info[p]
       IN  /\ generate_response_tail(is_available[p], Get(info, "user_name")) = "ask_name"
           /\ bot_response' = [bot_response EXCEPT ![p] =
                 AskName(Get(info, "service_type"), Get(info, "date"),
                         Get(info, "time"))]
    /\ pc' = [pc EXCEPT ![p] = "jsonify"]
    /\ UNCHANGED <<APPOINTMENTS, request, user_message, extracted_info,
                   is_available, result, api, calls, entry_store, requests, viewed,
                   last_writer, prior, booked_pairs>>

\* a taken slot makes the policy ask the store again instead of answering
ReportConflict_recheck(p) ==
    /\ pc[p] = "decide"
    /\ generate_response_tail(is_available[p],
                              Get(extracted_info[p], "user_name")) = "conflict"
    /\ pc' = [pc EXCEPT ![p] = "check"]
    /\ calls' = [calls EXCEPT ![p]["reads"] = 0]
    /\ UNCHANGED <<APPOINTMENTS, request, user_message, extracted_info,
                   is_available, bot_response, result, api, entry_store,
                   requests, viewed, last_writer, prior, booked_pairs>>

\* generate_response, lines 137-138: the slot is taken
ReportConflict(p) ==
    /\ pc[p] = "decide"
    /\ LET info == extracted_info[p]
       IN  /\ generate_response_tail(is_available[p], Get(info, "user_name")) = "conflict"
           /\ bot_response' = [bot_response EXCEPT ![p] =
                 Conflict(Get(info, "date"), Get(info, "time"))]
    /\ pc' = [pc EXCEPT ![p] = "jsonify"]
    /\ UNCHANGED <<APPOINTMENTS, request, user_message, extracted_info,
                   is_available, result, api, calls, entry_store, requests, viewed,
                   last_writer, prior, booked_pairs>>

\* the debugging field removed from the answer
Jsonify_no_info(p) ==
    /\ pc[p] = "jsonify"
    /\ result' = [result EXCEPT ![p] =
          [status |-> "returned", body |-> [response |-> bot_response[p]]]]
    /\ pc' = [pc EXCEPT ![p] = "done"]
    /\ UNCHANGED <<APPOINTMENTS, request, user_message, extracted_info,
                   is_available, bot_response, api, calls, entry_store,
                   requests, viewed, last_writer, prior, booked_pairs>>

\* chat(), lines 166-169: the JSON answer of the turn
Jsonify(p) ==
    /\ pc[p] = "jsonify"
    /\ result' = [result EXCEPT ![p] =
          [status |-> "returned",
           body |-> [response |-> bot_response[p],
                     extracted_info |-> extracted_info[p]]]]
    /\ pc' = [pc EXCEPT ![p] = "done"]
    /\ UNCHANGED <<APPOINTMENTS, request, user_message, extracted_info,
                   is_available, bot_response, api, calls, entry_store,
                   requests, viewed,
                   last_writer, prior, booked_pairs>>

\* a view that empties the calendar it has shown
view_appointments_clears ==
    /\ requests < MaxRequests
    /\ requests' = requests + 1
    /\ viewed' = [shown |-> TRUE, dump |-> APPOINTMENTS]
    /\ APPOINTMENTS' = [k \in {} |-> [booked |-> TRUE]]
    /\ UNCHANGED <<pc, request, user_message, extracted_info,
                   is_available, bot_response, result, api, calls, entry_store,
                   last_writer, prior, booked_pairs>>

\* GET /appointments: jsonify(APPOINTMENTS)
view_appointments ==
    /\ requests < MaxRequests
    /\ requests' = requests + 1
    /\ viewed' = [shown |-> TRUE, dump |-> APPOINTMENTS]
    /\ UNCHANGED <<APPOINTMENTS, pc, request, user_message, extracted_info,
                   is_available, bot_response, result, api, calls, entry_store,
                   last_writer, prior, booked_pairs>>

Turn(p) ==
    \/ \E req \in Requests : Receive(p, req)
    \/ ChatHead(p)
    \/ \E outcome \in ApiOutcomes : ParseDateTime(p, outcome)
    \/ GenerateResponse(p)
    \/ CheckAvailability(p)
    \/ BookAppointment(p)
    \/ AskForName(p)
    \/ ReportConflict(p)
    \/ Jsonify(p)

Next ==
    \/ \E p \in SeqProcs : Turn(p)
    \/ view_appointments

Spec == Init /\ [][Next]_vars

\* ---------------------------------------------------- concurrent requests
\* The development server serves each request on a thread of its own, so
\* two turns can interleave at every step; the inputs are the few that
\* make two turns meet on one slot.
ConcRequests ==
    {[kind |-> "bad"],
     [kind |-> "json", data |-> PyDict([message |-> PyStr(<<" ">>)])],
     [kind |-> "json", data |-> PyDict([message |-> PyStr(<<" ", "hi", "\n">>)])]}

ConcInfos ==
    {PyDict([service_type |-> PyStr(<<"haircut">>), date |-> PyStr(D20),
             time |-> t, user_name |-> n, intent |-> PyStr(<<"book_appointment">>)]) :
        t \in {PyStr(T09), PyStr(T10)}, n \in {None, PyStr(<<"Alice">>), PyStr(<<"Bob">>)}}

ConcApiOutcomes ==
    {[kind |-> "error"]}
        \cup {[kind |-> "response",
               choices |-> <<[content |-> [t |-> "str",
                                           text |-> [json |-> TRUE, value |-> v]]]>>] :
                 v \in ConcInfos \cup {PyList}}

TurnConc(p) ==
    \/ \E req \in ConcRequests : Receive(p, req)
    \/ ChatHead(p)
    \/ \E outcome \in ConcApiOutcomes : ParseDateTime(p, outcome)
    \/ GenerateResponse(p)
    \/ CheckAvailability(p)
    \/ BookAppointment(p)
    \/ AskForName(p)
    \/ ReportConflict(p)
    \/ Jsonify(p)

NextConc ==
    \/ \E p \in Procs : TurnConc(p)
    \/ view_appointments

SpecConc == Init /\ [][NextConc]_vars

\* the steps a request thread takes by itself
Run(p) ==
    \/ ChatHead(p)
    \/ GenerateResponse(p)
    \/ CheckAvailability(p)
    \/ BookAppointment(p)
    \/ AskForName(p)
    \/ ReportConflict(p)
    \/ Jsonify(p)

\* the outbound call of line 55 comes back, with an answer or an error
CallReturns(p) == \E outcome \in ConcApiOutcomes : ParseDateTime(p, outcome)

\* every thread that can step is scheduled in the end, and every outbound
\* call comes back in the end
LiveSpec ==
    /\ SpecConc
    /\ \A p \in Procs : WF_vars(Run(p)) /\ WF_vars(CallReturns(p))

\* ------------------------------------------------------------- properties
\* The vocabulary of the properties, stated without the policy's operators.

\* the intent record of the turn has this category
HasIntent(p, category) ==
    /\ extracted_info[p].t = "dict"
    /\ "intent" \in DOMAIN extracted_info[p].d
    /\ extracted_info[p].d["intent"] = [t |-> "str", s |-> <<category>>]

\* a field of the intent record is present: it is there, it is not null
\* and it is not the empty string
Present(p, field) ==
    /\ extracted_info[p].t = "dict"
    /\ field \in DOMAIN extracted_info[p].d
    /\ extracted_info[p].d[field].t = "str"
    /\ Len(extracted_info[p].d[field].s) > 0

\* the text of a present field
Text(p, field) == extracted_info[p].d[field].s

\* the slot key of the turn's date and time
SlotKey(p) == Text(p, "date") \o <<" ">> \o Text(p, "time")

\* generate_response has returned its text to chat()
PolicyReturned(p) == pc[p] = "jsonify"

\* the turn neither asked the store nor wrote to it
StoreUntouched(p) ==
    /\ calls[p].reads = 0
    /\ calls[p].writes = 0
    /\ APPOINTMENTS = entry_store[p]

BookingRequest(p) ==
    /\ HasIntent(p, "book_appointment")
    /\ Present(p, "service_type")
    /\ Present(p, "date")
    /\ Present(p, "time")

\* C1: a book_appointment record with service, date, time and name present
\* and a free slot key creates exactly one Booking Record: the store gains
\* that key with the supplied service and name and booked = TRUE, every
\* other key keeps its record, and the text is the confirmation naming
\* service, date, time and name.
C1_BookingCreated ==
    \A p \in Procs :
        (/\ PolicyReturned(p)
         /\ BookingRequest(p)
         /\ Present(p, "user_name")
         /\ SlotKey(p) \notin DOMAIN entry_store[p])
        => /\ DOMAIN APPOINTMENTS = DOMAIN entry_store[p] \cup {SlotKey(p)}
           /\ Cardinality(DOMAIN APPOINTMENTS)
                 = Cardinality(DOMAIN entry_store[p]) + 1
           /\ APPOINTMENTS[SlotKey(p)] =
                 [service |-> extracted_info[p].d["service_type"],
                  name |-> extracted_info[p].d["user_name"],
                  booked |-> TRUE]
           /\ \A k \in DOMAIN entry_store[p] : APPOINTMENTS[k] = entry_store[p][k]
           /\ bot_response[p] =
                 <<"Perfect! Your ">> \o Text(p, "service_type")
                   \o <<" appointment for ">> \o Text(p, "date")
                   \o <<" at ">> \o Text(p, "time")
                   \o <<" is confirmed, ">> \o Text(p, "user_name")
                   \o <<". Is there anything else I can help you with?">>

C1_Witness ==
    \E p \in Procs :
        /\ PolicyReturned(p)
        /\ BookingRequest(p)
        /\ Present(p, "user_name")
        /\ SlotKey(p) \notin DOMAIN entry_store[p]
        /\ calls[p].writes = 1
        /\ Cardinality(DOMAIN APPOINTMENTS) = 3

\* C2: a book_appointment record with service, date and time present whose
\* slot key already has a Booking Record changes nothing in the store and
\* is answered with the conflict text listing 09:00, 10:00, 11:00, whether
\* or not a name came with it and whether or not those times are free.
C2_ConflictNoMutation ==
    \A p \in Procs :
        (/\ PolicyReturned(p)
         /\ BookingRequest(p)
         /\ SlotKey(p) \in DOMAIN entry_store[p])
        => /\ APPOINTMENTS = entry_store[p]
           /\ calls[p].writes = 0
           /\ bot_response[p] =
                 <<"I'm sorry, but ">> \o Text(p, "time") \o <<" on ">>
                   \o Text(p, "date")
                   \o <<" is already booked. Here are some available times: ",
                        "09:00", ", ", "10:00", ", ", "11:00",
                        ". Would any of these work?">>
           /\ (SlotKey(p) = <<"2024-09-20", " ", "10:00">>
                 => APPOINTMENTS[SlotKey(p)] =
                      [service |-> [t |-> "str", s |-> <<"dentist">>],
                       name |-> [t |-> "str", s |-> <<"John Doe">>],
                       booked |-> TRUE])

\* the seeded 10:00 slot asked for by Alice: the text offers 10:00 again
C2_Witness ==
    \E p \in Procs :
        /\ PolicyReturned(p)
        /\ BookingRequest(p)
        /\ SlotKey(p) = <<"2024-09-20", " ", "10:00">>
        /\ Present(p, "user_name")
        /\ Text(p, "user_name") = <<"Alice">>
        /\ calls[p].reads = 1

\* C3: a book_appointment record with service, date and time present, no
\* name and a free slot key is answered with the request for the name, and
\* no Booking Record is created: the store is unchanged.
C3_NameRequestedNoBooking ==
    \A p \in Procs :
        (/\ PolicyReturned(p)
         /\ BookingRequest(p)
         /\ ~Present(p, "user_name")
         /\ SlotKey(p) \notin DOMAIN entry_store[p])
        => /\ APPOINTMENTS = entry_store[p]
           /\ SlotKey(p) \notin DOMAIN APPOINTMENTS
           /\ calls[p].writes = 0
           /\ bot_response[p] =
                 <<"Great! I have a ">> \o Text(p, "service_type")
                   \o <<" appointment available on ">> \o Text(p, "date")
                   \o <<" at ">> \o Text(p, "time")
                   \o <<". What's your name so I can confirm the booking?">>

C3_Witness ==
    \E p \in Procs :
        /\ PolicyReturned(p)
        /\ BookingRequest(p)
        /\ ~Present(p, "user_name")
        /\ SlotKey(p) \notin DOMAIN entry_store[p]
        /\ calls[p].reads = 1

\* the policy is running or has returned in this turn
PolicyEntered(p) == calls[p].policy = 1

\* C4: a greeting record, whatever its other fields and whatever the
\* store, never reads or writes the Slot Store and is answered with the
\* fixed greeting.
C4_GreetingNoStore ==
    \A p \in Procs :
        (PolicyEntered(p) /\ HasIntent(p, "greeting"))
        => /\ StoreUntouched(p)
           /\ pc[p] \in {"jsonify", "done"}
           /\ bot_response[p] =
                 <<"Hello! I'm your appointment assistant. I can help you book appointments. What kind of appointment would you like to schedule?">>

\* a greeting that carries a full booking, met by a store that has grown
C4_Witness ==
    \E p \in Procs :
        /\ PolicyReturned(p)
        /\ HasIntent(p, "greeting")
        /\ Present(p, "service_type") /\ Present(p, "date")
        /\ Present(p, "time") /\ Present(p, "user_name")
        /\ Cardinality(DOMAIN APPOINTMENTS) = 3

\* the labels of the missing fields, in the order service, date, time
MissingLabels(p) ==
    (IF Present(p, "service_type") THEN <<>> ELSE <<"type of appointment">>)
        \o (IF Present(p, "date") THEN <<>> ELSE <<"date">>)
        \o (IF Present(p, "time") THEN <<>> ELSE <<"time">>)

\* labels with ", " between each two of them
CommaSeparated(labels) ==
    [i \in 1..(2 * Len(labels) - 1) |->
        IF i % 2 = 1 THEN labels[(i + 1) \div 2] ELSE ", "]

\* C5: a book_appointment record lacking any of service, date, time is
\* answered with the clarification request naming exactly the missing ones
\* in the order service, date, time, joined with commas; the name is never
\* asked for, the store is neither asked nor changed, and the name's
\* presence makes no difference.
C5_ClarificationExact ==
    \A p \in Procs :
        (/\ PolicyEntered(p)
         /\ HasIntent(p, "book_appointment")
         /\ MissingLabels(p) /= <<>>)
        => /\ StoreUntouched(p)
           /\ pc[p] \in {"jsonify", "done"}
           /\ bot_response[p] =
                 <<"I need a bit more information. Could you please provide the ">>
                   \o CommaSeparated(MissingLabels(p)) \o <<"?">>
           /\ \A i \in 1..Len(bot_response[p]) : bot_response[p][i] /= "name"

\* only the date is missing, and the name is there
C5_Witness ==
    \E p \in Procs :
        /\ PolicyReturned(p)
        /\ HasIntent(p, "book_appointment")
        /\ MissingLabels(p) = <<"date">>
        /\ Present(p, "user_name")

\* C6: check_availability(date, time) is TRUE exactly when the store has no
\* Booking Record under the slot key of (date, time): the answer a turn got
\* agrees with the store, and once the turn has booked, the answer for
\* that key is FALSE.
C6_AvailableIffNoRecord ==
    /\ \A d \in Dates, t \in Times :
          (d.t = "str" /\ t.t = "str")
          => (check_availability(APPOINTMENTS, d, t)
                <=> ~(\E k \in DOMAIN APPOINTMENTS : k = d.s \o <<" ">> \o t.s))
    /\ \A p \in Procs :
          /\ pc[p] = "decide"
                => (is_available[p] <=> SlotKey(p) \notin DOMAIN APPOINTMENTS)
          /\ (PolicyReturned(p) /\ calls[p].writes = 1)
                => /\ SlotKey(p) \in DOMAIN APPOINTMENTS
                   /\ APPOINTMENTS[SlotKey(p)].booked
                   /\ ~check_availability(APPOINTMENTS, extracted_info[p].d["date"],
                                          extracted_info[p].d["time"])

\* the slot was free when asked, and is taken now that the turn has booked
C6_Witness ==
    \E p \in Procs :
        /\ PolicyReturned(p)
        /\ calls[p].writes = 1
        /\ is_available[p]
        /\ ~check_availability(APPOINTMENTS, extracted_info[p].d["date"],
                               extracted_info[p].d["time"])

\* the outbound call of the turn failed, or its answer could not be parsed
GatewayFailed(p) ==
    \/ api[p].kind = "error"
    \/ /\ api[p].kind = "response"
       /\ \/ Len(api[p].choices) = 0
          \/ /\ Len(api[p].choices) > 0
             /\ \/ api[p].choices[1].content.t /= "str"
                \/ /\ api[p].choices[1].content.t = "str"
                   /\ ~api[p].choices[1].content.text.json

\* C7: the gateway is total: whatever the outbound call does, control comes
\* back to chat() with a value and no exception, and when the call failed
\* or its answer could not be parsed that value is the record with service
\* type, date, time and user name null and intent unclear.
C7_GatewayTotal ==
    \A p \in Procs :
        /\ api[p].kind /= "none"
              => /\ pc[p] = "respond" \/ calls[p].policy = 1
                 /\ pc[p] = "respond"
                       => (calls[p].exceptions = 0 /\ result[p].status = "pending")
        /\ GatewayFailed(p)
              => extracted_info[p] =
                   [t |-> "dict",
                    d |-> [service_type |-> [t |-> "none"], date |-> [t |-> "none"],
                           time |-> [t |-> "none"], user_name |-> [t |-> "none"],
                           intent |-> [t |-> "str", s |-> <<"unclear">>]]]

\* the call itself failed and the policy is about to run on the default
C7_Witness ==
    \E p \in Procs :
        /\ api[p].kind = "error"
        /\ pc[p] = "respond"
        /\ extracted_info[p].t = "dict"

\* the request carries a message of white space only, or of nothing
BlankMessage(p) ==
    /\ request[p].kind = "json"
    /\ request[p].data.t = "dict"
    /\ "message" \in DOMAIN request[p].data.d
    /\ request[p].data.d["message"].t = "str"
    /\ \A i \in 1..Len(request[p].data.d["message"].s) :
          request[p].data.d["message"].s[i] \in {" ", "\n"}

\* C8: a turn whose message is empty or white space only returns exactly
\* the "please enter a message" answer; the gateway is not invoked, the
\* policy is not run and the store is unchanged.
C8_BlankMessageShortCircuit ==
    \A p \in Procs :
        BlankMessage(p)
        => /\ pc[p] \in {"chat", "done"}
           /\ calls[p].gateway = 0
           /\ calls[p].outbound = 0
           /\ calls[p].policy = 0
           /\ api[p].kind = "none"
           /\ StoreUntouched(p)
           /\ pc[p] = "done"
                 => result[p] = [status |-> "returned",
                                 body |-> [response |-> <<"Please enter a message.">>]]

\* a message of two white-space characters has been answered
C8_Witness ==
    \E p \in Procs :
        /\ BlankMessage(p)
        /\ Len(request[p].data.d["message"].s) = 2
        /\ pc[p] = "done"

\* the request has no JSON body, a body that is no object, or a message
\* that is no string
MalformedRequest(p) ==
    \/ request[p].kind = "bad"
    \/ /\ request[p].kind = "json"
       /\ \/ request[p].data.t /= "dict"
          \/ /\ request[p].data.t = "dict"
             /\ "message" \in DOMAIN request[p].data.d
             /\ request[p].data.d["message"].t /= "str"

ApologyAnswer ==
    [status |-> "returned",
     body |-> [response |-> <<"Sorry, I encountered an error. Please try again.">>]]

\* C9: chat() never lets an exception out: every turn that ends has
\* returned an answer with a response text, and a turn in which anything
\* raised (a malformed request, an extraction result the policy cannot
\* read) has returned the apology.
C9_TurnNeverRaises ==
    \A p \in Procs :
        /\ result[p].status \in {"pending", "returned"}
        /\ pc[p] = "done"
              => /\ result[p].status = "returned"
                 /\ "response" \in DOMAIN result[p].body
                 /\ calls[p].exceptions > 0 => result[p] = ApologyAnswer
                 /\ MalformedRequest(p) => result[p] = ApologyAnswer
                 /\ (calls[p].policy = 1 /\ extracted_info[p].t /= "dict")
                       => result[p] = ApologyAnswer

\* the policy raised on an extraction result that is no record
C9_Witness ==
    \E p \in Procs :
        /\ pc[p] = "done"
        /\ calls[p].policy = 1
        /\ calls[p].exceptions = 1
        /\ extracted_info[p].t = "list"

\* the intent record is a record whose category is neither greeting nor
\* book_appointment (unclear, null, missing, anything else)
OtherIntent(p) ==
    /\ extracted_info[p].t = "dict"
    /\ ~HasIntent(p, "greeting")
    /\ ~HasIntent(p, "book_appointment")

\* C10: a record whose category is neither greeting nor book_appointment,
\* whatever its other fields, is answered with the fixed fallback text and
\* the store is neither asked nor changed.
C10_FallbackNoStore ==
    \A p \in Procs :
        (PolicyEntered(p) /\ OtherIntent(p))
        => /\ StoreUntouched(p)
           /\ pc[p] \in {"jsonify", "done"}
           /\ bot_response[p] =
                 <<"I'm here to help you book appointments. Could you please tell me what kind of appointment you need and when you'd like to schedule it?">>

\* an unclear record that carries a complete booking for a free slot
C10_Witness ==
    \E p \in Procs :
        /\ PolicyReturned(p)
        /\ OtherIntent(p)
        /\ HasIntent(p, "unclear")
        /\ Present(p, "service_type") /\ Present(p, "date")
        /\ Present(p, "time") /\ Present(p, "user_name")
        /\ SlotKey(p) \notin DOMAIN APPOINTMENTS

\* the turn has passed the availability check of a complete booking request
\* that carries a name, and was told the slot is free
PassedCheck(p) ==
    /\ calls[p].reads = 1
    /\ is_available[p]
    /\ BookingRequest(p)
    /\ Present(p, "user_name")

ConfirmationOf(p) ==
    <<"Perfect! Your ">> \o Text(p, "service_type") \o <<" appointment for ">>
        \o Text(p, "date") \o <<" at ">> \o Text(p, "time")
        \o <<" is confirmed, ">> \o Text(p, "user_name")
        \o <<". Is there anything else I can help you with?">>

\* two turns were both told that the same slot is free, for two names:
\* neither had written when the other asked
Raced(p, q) ==
    /\ p /= q
    /\ PassedCheck(p)
    /\ PassedCheck(q)
    /\ SlotKey(p) = SlotKey(q)
    /\ Text(p, "user_name") /= Text(q, "user_name")

\* C11: when two concurrent turns for the same free slot key and different
\* names both pass the availability check before either writes, both
\* return the confirmation (double confirmation), neither returns the
\* conflict text, and the store keeps only the record of the turn that
\* wrote last (lost update).
C11_RaceDoubleConfirmation ==
    \A p, q \in Procs :
        (Raced(p, q) /\ pc[p] = "done" /\ pc[q] = "done")
        => /\ result[p] = [status |-> "returned",
                           body |-> [response |-> ConfirmationOf(p),
                                     extracted_info |-> extracted_info[p]]]
           /\ result[q] = [status |-> "returned",
                           body |-> [response |-> ConfirmationOf(q),
                                     extracted_info |-> extracted_info[q]]]
           /\ last_writer \in {p, q}
           /\ APPOINTMENTS[SlotKey(p)] =
                 [service |-> extracted_info[last_writer].d["service_type"],
                  name |-> extracted_info[last_writer].d["user_name"],
                  booked |-> TRUE]
           /\ last_writer = p
                 => APPOINTMENTS[SlotKey(p)].name /= extracted_info[q].d["user_name"]

\* both turns have answered, and Alice's record has been lost to Bob's
C11_Witness ==
    \E p, q \in Procs :
        /\ Raced(p, q)
        /\ pc[p] = "done"
        /\ pc[q] = "done"
        /\ calls[p].writes = 1
        /\ calls[q].writes = 1
        /\ last_writer = q
        /\ Text(p, "user_name") = <<"Alice">>
        /\ APPOINTMENTS[SlotKey(p)].name = [t |-> "str", s |-> <<"Bob">>]

\* the step in which a turn writes its booking
BookStep(p) ==
    /\ pc[p] = "decide"
    /\ pc'[p] = "jsonify"
    /\ calls'[p].writes = calls[p].writes + 1

\* C12: book_appointment is unconditional: on a free key it inserts, on a
\* taken key it overwrites (last write wins), the record it leaves has
\* booked = TRUE and the given service and name, no other key changes, and
\* a second application with the same arguments changes nothing.  Both for
\* the function applied to every store the system reaches and for every
\* booking write a turn performs.
C12_BookUnconditional ==
    /\ [](\A d \in {PyStr(D20)}, t \in {PyStr(T09), PyStr(T10)},
             n \in {PyStr(<<"Alice">>), PyStr(<<"Bob">>)} :
            LET key == d.s \o <<" ">> \o t.s
                once == book_appointment(APPOINTMENTS, d, t, PyStr(<<"haircut">>), n)
            IN  /\ DOMAIN once = DOMAIN APPOINTMENTS \cup {key}
                /\ once[key] = [service |-> [t |-> "str", s |-> <<"haircut">>],
                                name |-> n, booked |-> TRUE]
                /\ \A k \in DOMAIN APPOINTMENTS \ {key} : once[k] = APPOINTMENTS[k]
                /\ book_appointment(once, d, t, PyStr(<<"haircut">>), n) = once)
    /\ [][\A p \in Procs :
            BookStep(p)
            => /\ DOMAIN APPOINTMENTS' = DOMAIN APPOINTMENTS \cup {SlotKey(p)}
               /\ APPOINTMENTS'[SlotKey(p)] =
                     [service |-> extracted_info[p].d["service_type"],
                      name |-> extracted_info[p].d["user_name"],
                      booked |-> TRUE]
               /\ \A k \in DOMAIN APPOINTMENTS \ {SlotKey(p)} :
                     APPOINTMENTS'[k] = APPOINTMENTS[k]]_vars

\* a turn has just written over the record another turn had written
C12_Witness ==
    \E p, q \in Procs :
        /\ Raced(p, q)
        /\ pc[p] = "jsonify"
        /\ last_writer = p
        /\ calls[p].writes = 1
        /\ calls[q].writes = 1
        /\ APPOINTMENTS[SlotKey(q)].name = extracted_info[p].d["user_name"]

\* the text is a booking confirmation
IsConfirmation(text) == Len(text) > 0 /\ text[1] = "Perfect! Your "

\* C13: the store starts with exactly the two seed records; it changes only
\* in the booking write of a turn that returns the confirmation; a turn
\* that ends with any other answer, and every GET /appointments, leave it
\* as it was; no key is ever removed; every record has booked = TRUE.
C13_StoreLifecycle ==
    /\ APPOINTMENTS =
          [k \in {<<"2024-09-20", " ", "10:00">>, <<"2024-09-20", " ", "14:00">>} |->
              IF k = <<"2024-09-20", " ", "10:00">>
              THEN [service |-> [t |-> "str", s |-> <<"dentist">>],
                    name |-> [t |-> "str", s |-> <<"John Doe">>], booked |-> TRUE]
              ELSE [service |-> [t |-> "str", s |-> <<"haircut">>],
                    name |-> [t |-> "str", s |-> <<"Jane Smith">>], booked |-> TRUE]]
    /\ [](/\ \A k \in DOMAIN APPOINTMENTS : APPOINTMENTS[k].booked = TRUE
          /\ \A p \in SeqProcs :
                (/\ pc[p] = "done"
                 /\ ~("response" \in DOMAIN result[p].body
                        /\ IsConfirmation(result[p].body.response)))
                => APPOINTMENTS = entry_store[p])
    /\ [][/\ \A k \in DOMAIN APPOINTMENTS : k \in DOMAIN APPOINTMENTS'
           /\ APPOINTMENTS' /= APPOINTMENTS
                 => \E p \in Procs : BookStep(p) /\ IsConfirmation(bot_response'[p])
           /\ viewed' /= viewed
                 => (APPOINTMENTS' = APPOINTMENTS /\ viewed'.dump = APPOINTMENTS)]_vars

\* a booking has been made and the calendar then viewed
C13_Witness ==
    /\ viewed.shown
    /\ viewed.dump = APPOINTMENTS
    /\ Cardinality(DOMAIN APPOINTMENTS) = 3
    /\ \E p \in Procs : pc[p] = "done" /\ calls[p].writes = 1

\* C14 as stated: every answer of POST /chat carries both a response
\* string and the extracted_info record of the turn.
C14_AlwaysBothFields ==
    \A p \in Procs :
        pc[p] = "done"
        => /\ "response" \in DOMAIN result[p].body
           /\ "extracted_info" \in DOMAIN result[p].body

\* C14, amended: every answer of POST /chat carries a response string; it
\* carries extracted_info, equal to the record the gateway returned in
\* that turn, exactly when the turn ran the gateway and the policy without
\* an exception.  The blank-message answer and the apology carry the
\* response alone.
C14_InfoOnlyAfterPolicy ==
    \A p \in Procs :
        pc[p] = "done"
        => /\ "response" \in DOMAIN result[p].body
           /\ "extracted_info" \in DOMAIN result[p].body
                 <=> (calls[p].policy = 1 /\ calls[p].exceptions = 0)
           /\ "extracted_info" \in DOMAIN result[p].body
                 => result[p].body.extracted_info = extracted_info[p]
           /\ DOMAIN result[p].body \subseteq {"response", "extracted_info"}

\* a turn has answered with both fields
C14_Witness ==
    \E p \in Procs :
        /\ pc[p] = "done"
        /\ DOMAIN result[p].body = {"response", "extracted_info"}
        /\ HasIntent(p, "book_appointment")

\* C15: whatever the outbound call answers, the value parse_date_time
\* hands to the policy is a record with the fields service_type, date,
\* time, user_name and intent, and its intent is one of book_appointment,
\* greeting, unclear.
C15_FixedShapeRecord ==
    \A p \in Procs :
        api[p].kind /= "none"
        => /\ extracted_info[p].t = "dict"
           /\ DOMAIN extracted_info[p].d =
                 {"service_type", "date", "time", "user_name", "intent"}
           /\ \/ HasIntent(p, "book_appointment")
              \/ HasIntent(p, "greeting")
              \/ HasIntent(p, "unclear")

\* what generate_response makes of a record and a store, with nothing else
\* to go by: the text it returns and the store it leaves
Decided(info, store) ==
    LET h == generate_response_head(info)
        date == Get(info, "date")
        time == Get(info, "time")
        service == Get(info, "service_type")
        name == Get(info, "user_name")
    IN  IF h.next = "return" THEN [text |-> h.text, store |-> store]
        ELSE LET branch == generate_response_tail(
                               check_availability(store, date, time), name)
             IN  CASE branch = "book" ->
                        [text |-> Confirmation(service, date, time, name),
                         store |-> book_appointment(store, date, time, service, name)]
                   [] branch = "ask_name" ->
                        [text |-> AskName(service, date, time), store |-> store]
                   [] OTHER ->
                        [text |-> Conflict(date, time), store |-> store]

\* the record of the turn carries a name and nothing else of a booking
NameOnly(p) ==
    /\ HasIntent(p, "book_appointment")
    /\ Present(p, "user_name")
    /\ ~Present(p, "service_type")
    /\ ~Present(p, "date")
    /\ ~Present(p, "time")

\* C16: nothing of a booking is carried from turn to turn: what a turn
\* answers and writes is decided by its own Intent Record and the store it
\* meets.  A turn that follows a name request and brings the name alone
\* is asked for type, date and time and books nothing; a slot is written
\* only by a turn whose own record carries service, date, time and name.
C16_NoPendingBooking ==
    /\ [](\A p \in SeqProcs :
            /\ (PolicyReturned(p) /\ extracted_info[p].t = "dict")
                  => /\ bot_response[p] = Decided(extracted_info[p], entry_store[p]).text
                     /\ APPOINTMENTS = Decided(extracted_info[p], entry_store[p]).store
            /\ (prior[p].asked /\ PolicyEntered(p) /\ NameOnly(p))
                  => /\ StoreUntouched(p)
                     /\ pc[p] \in {"jsonify", "done"}
                     /\ bot_response[p] =
                           <<"I need a bit more information. Could you please provide the ",
                             "type of appointment", ", ", "date", ", ", "time", "?">>)
    /\ [][\A p \in Procs :
            APPOINTMENTS' /= APPOINTMENTS /\ pc'[p] /= pc[p]
            => /\ BookingRequest(p)
               /\ Present(p, "user_name")
               /\ \A k \in DOMAIN APPOINTMENTS' \ DOMAIN APPOINTMENTS : k = SlotKey(p)]_vars

\* the turn after a name request brought the name alone and has been
\* asked for everything again
C16_Witness ==
    \E p \in Procs :
        /\ prior[p].asked
        /\ PolicyReturned(p)
        /\ NameOnly(p)
        /\ APPOINTMENTS = entry_store[p]

\* C17: no retries: a turn makes at most one outbound call, and a turn
\* whose call failed goes straight on with the unclear record: it answers
\* the fallback text (not the apology) together with the all-null unclear
\* record, and the store is unchanged.
C17_NoRetryDegrade ==
    \A p \in Procs :
        /\ calls[p].outbound <= 1
        /\ calls[p].gateway <= 1
        /\ GatewayFailed(p)
              => /\ pc[p] \in {"respond", "jsonify", "done"}
                 /\ calls[p].outbound = 1
                 /\ calls[p].exceptions = 0
                 /\ StoreUntouched(p)
                 /\ pc[p] = "done"
                       => result[p] =
                            [status |-> "returned",
                             body |->
                               [response |->
                                  <<"I'm here to help you book appointments. Could you please tell me what kind of appointment you need and when you'd like to schedule it?">>,
                                extracted_info |->
                                  [t |-> "dict",
                                   d |-> [service_type |-> [t |-> "none"],
                                          date |-> [t |-> "none"],
                                          time |-> [t |-> "none"],
                                          user_name |-> [t |-> "none"],
                                          intent |-> [t |-> "str", s |-> <<"unclear">>]]]]]

\* a turn whose completion text was not JSON has answered
C17_Witness ==
    \E p \in Procs :
        /\ GatewayFailed(p)
        /\ api[p].kind = "response"
        /\ pc[p] = "done"
        /\ calls[p].outbound = 1

\* C18: every turn received returns exactly one answer to its caller,
\* given that the outbound call comes back: outside the outbound call a
\* turn always has a step to take, the answer of a turn is set once, and
\* every turn ends having returned.
C18_TurnAnswersOnce ==
    /\ [](\A p \in Procs :
            pc[p] \in {"chat", "respond", "check", "decide", "jsonify"}
            => ENABLED Run(p))
    /\ [][\A p \in Procs :
            result'[p] /= result[p]
            => \/ result[p] = NoResult /\ pc'[p] = "done"
                    /\ result'[p].status = "returned"
               \/ result'[p] = NoResult /\ pc'[p] = "chat"]_vars
    /\ \A p \in Procs :
          (pc[p] = "chat") ~> (pc[p] = "done" /\ result[p].status = "returned")

\* both threads have answered, one of them after its outbound call failed
C18_Witness ==
    /\ \A p \in Procs : pc[p] = "done" /\ result[p].status = "returned"
    /\ \E p \in Procs : api[p].kind = "error"
    /\ requests = MaxRequests

\* C19: with one turn at a time the first writer wins: a key that has a
\* record keeps its service and name at every step, because every booking
\* write comes after an availability check of the same turn that found the
\* same key free; the two seed records keep their values for ever.
C19_FirstWriterWins ==
    /\ [](/\ APPOINTMENTS[<<"2024-09-20", " ", "10:00">>] =
               [service |-> [t |-> "str", s |-> <<"dentist">>],
                name |-> [t |-> "str", s |-> <<"John Doe">>], booked |-> TRUE]
          /\ APPOINTMENTS[<<"2024-09-20", " ", "14:00">>] =
               [service |-> [t |-> "str", s |-> <<"haircut">>],
                name |-> [t |-> "str", s |-> <<"Jane Smith">>], booked |-> TRUE])
    /\ [][/\ \A k \in DOMAIN APPOINTMENTS :
                /\ k \in DOMAIN APPOINTMENTS'
                /\ APPOINTMENTS'[k].service = APPOINTMENTS[k].service
                /\ APPOINTMENTS'[k].name = APPOINTMENTS[k].name
           /\ \A p \in Procs :
                BookStep(p)
                => /\ calls[p].reads = 1
                   /\ is_available[p]
                   /\ SlotKey(p) \notin DOMAIN APPOINTMENTS]_vars

\* a slot booked by an earlier turn was asked for under another name, and
\* the earlier record is still there
C19_Witness ==
    \E p \in Procs :
        /\ PolicyReturned(p)
        /\ BookingRequest(p)
        /\ Present(p, "user_name")
        /\ SlotKey(p) \in DOMAIN entry_store[p]
        /\ SlotKey(p) \notin {<<"2024-09-20", " ", "10:00">>, <<"2024-09-20", " ", "14:00">>}
        /\ APPOINTMENTS[SlotKey(p)].name /= extracted_info[p].d["user_name"]

\* C20: distinct (date, time) pairs never share a slot key: for non-empty
\* date and time strings, a slot is reported unavailable only if that very
\* pair was seeded or booked, so booking one pair never makes another pair
\* unavailable.
C20_DistinctPairsDistinctKeys ==
    /\ \A d \in Dates, t \in Times :
          (d.t = "str" /\ t.t = "str" /\ Len(d.s) > 0 /\ Len(t.s) > 0
             /\ ~check_availability(APPOINTMENTS, d, t))
          => <<d, t>> \in booked_pairs
    /\ \A p \in Procs :
          (pc[p] = "decide" /\ ~is_available[p])
          => <<extracted_info[p].d["date"], extracted_info[p].d["time"]>>
                \in booked_pairs

====
